---- MODULE Spec2Model ----
(***************************************************************************)
(* Model of src/lawde.py: Lawde.load and the unit of work it submits for   *)
(* every law (download_and_store -> download_law -> store), run on a       *)
(* ThreadPoolExecutor.  A law slug and a file name are sequences of        *)
(* one-character strings; a path is a sequence of names relative to the    *)
(* working directory of the process.                                       *)
(***************************************************************************)
EXTENDS Integers, Sequences, FiniteSets, TLC

VARIABLES
    laws,       \* load(laws): the submitted slugs, in order
    old,        \* the laws whose location existed before the run
    run,        \* 1 in the first call of load(), 2 in a second call
    prev,       \* what the first call left: responses, outcomes, filesystem
    inflight,   \* the laws in flight when KeyboardInterrupt was raised
    total,      \* total = len(laws)
    mainpc,     \* position of the thread running load()
    submitted,  \* number of executor.submit calls made so far
    nqueued,    \* work items waiting in the executor's queue
    running,    \* worker threads busy with a work item
    nfinished,  \* futures finished and not yet yielded by as_completed
    completed,  \* futures yielded so far (the tqdm progress count)
    pc,         \* per law: position of its unit of work
    tries,      \* per law: download_law's local counter
    requests,   \* per law: number of requests.get calls made
    slept,      \* per law: the durations passed to time.sleep, in order
    res,        \* per law: the response requests.get returned, or NoRes
    zipf,       \* per law: namelist of the opened ZipFile (entries)
    idx,        \* per law: position of store's loop in zipf.namelist()
    result,     \* per law: how the future ended
    outcome,    \* per law: the branch load() took for its future
    touched,    \* per law: paths its unit wrote, created or removed
    log,        \* per law: the messages printed about it, in order
    dirs,       \* filesystem: the directories that exist
    files       \* filesystem: path -> content of every file that exists

vars == <<laws, old, run, prev, inflight, total, mainpc, submitted, nqueued, running, nfinished,
          completed, pc, tries, requests, slept, res, zipf, idx, result,
          outcome, touched, log, dirs, files>>

poolvars == <<total, mainpc, submitted, nqueued, running, nfinished, completed>>
unitvars == <<pc, tries, requests, slept, res, zipf, idx, result, outcome, touched,
              log>>
fsvars == <<dirs, files>>

----------------------------------------------------------------------------
(* Bounds of the model *)

NPool == 52         \* number of laws in the pool-only specification

(* Program constants *)

RetryLimit == 3     \* "if tries > 3: raise e"
SleepUnit == 3      \* "time.sleep(tries * 3)"
MaxWorkers == 50    \* "ThreadPoolExecutor(max_workers=50)"

----------------------------------------------------------------------------
(* Names, slugs and paths *)

Ext == <<".", "x", "m", "l">>

LawIds == { <<"a", "a">>, <<"a", "b">>, <<"b", "b">> }

\* self.path = Path(path), default 'laws/'
Root == <<"l", "a", "w", "s">>

\* name.endswith('.xml')
EndsWithXml(name) ==
    /\ Len(name) >= Len(Ext)
    /\ SubSeq(name, Len(name) - Len(Ext) + 1, Len(name)) = Ext

\* name.startswith('_')
StartsWithMarker(name) == Len(name) >= 1 /\ name[1] = "_"

\* f'{law}.xml'
CanonicalName(law) == law \o Ext

\* build_law_path: self.path / law[0] / law
build_law_path(law) == << Root, <<law[1]>>, law >>

IsPrefix(p, q) == Len(p) <= Len(q) /\ SubSeq(q, 1, Len(p)) = p

Ancestors(p) == { SubSeq(p, 1, n) : n \in 0..Len(p) }

----------------------------------------------------------------------------
(* Archives and responses *)

\* xml.dom.minidom.parseString raises on a document that is not well formed
Malformed == "bad"

\* a parser that accepts every document
ParseOkAny(data) == TRUE

ParseOk(data) == data # Malformed

\* a normalisation whose output differs from one call of load() to the next
PrettyStamped(data) == [fmt |-> "pretty", data |-> <<data, run>>]

\* dom.toprettyxml(...) of a parsed document; extract() keeps the bytes
Pretty(data) == [fmt |-> "pretty", data |-> data]
Verbatim(data) == [fmt |-> "raw", data |-> data]
Stale == [fmt |-> "stale", data |-> "old"]

\* archive entries: two structured documents, a malformed one, one whose
\* name carries the '_' marker, and an asset
EX == [name |-> <<"x">> \o Ext, data |-> "d1"]
EY == [name |-> <<"y">> \o Ext, data |-> "d2"]
EM == [name |-> <<"m">> \o Ext, data |-> Malformed]
EU == [name |-> <<"_", "u">> \o Ext, data |-> "d3"]
ER == [name |-> <<"r", ".", "t">>, data |-> "d4"]

\* the namelists a downloaded archive can have
Archives ==
    { <<ER>>, <<EU>>, <<EM>>,
      <<EX, ER>>, <<EX, EY>>, <<EX, EU>>, <<EX, EM>> }

NoRes == [status |-> 0, zip |-> FALSE, entries |-> <<>>]

\* nothing is known of an earlier call of load()
NoPrev == [answered |-> <<>>, res |-> <<>>, outcome |-> <<>>, dirs |-> {}, files |-> <<>>]

\* what the server can answer when requests.get returns without raising
Responses ==
    { [status |-> 200, zip |-> TRUE, entries |-> a] : a \in Archives }
    \cup { [status |-> 200, zip |-> FALSE, entries |-> <<>>],
           [status |-> 404, zip |-> FALSE, entries |-> <<>>] }

----------------------------------------------------------------------------
(* Filesystem operations *)

\* shutil.rmtree(p, ignore_errors=True)
RmDirs(p) == { d \in dirs : ~IsPrefix(p, d) }

\* a removal that unlinks the directories and leaves the files
RmFilesKept(p) == files

RmFiles(p) ==
    [ f \in { g \in DOMAIN files : ~IsPrefix(p, g) } |-> files[f] ]

\* an open() that leaves an existing file as it is
WriteFileKeepFirst(path, content) ==
    [ f \in (DOMAIN files) \cup {path} |->
        IF f \in DOMAIN files THEN files[f] ELSE content ]

\* open(path, 'w').write(content) / ZipFile.extract
WriteFile(path, content) ==
    [ f \in (DOMAIN files) \cup {path} |->
        IF f = path THEN content ELSE files[f] ]

Parent(path) == SubSeq(path, 1, Len(path) - 1)

StaleDirs(law) == Ancestors(build_law_path(law))
StaleFiles(law) ==
    { build_law_path(law) \o << CanonicalName(law) >>,
      build_law_path(law) \o << <<"o">> >> }

----------------------------------------------------------------------------
(* Initial states *)

\* the lists load() is called with: distinct slugs, of one shard directory
\* or of two
InputLists ==
    { <<>>, << <<"a", "a">> >>,
      << <<"a", "a">>, <<"a", "b">> >>,
      << <<"a", "a">>, <<"b", "b">> >> }

Range(s) == { s[i] : i \in 1..Len(s) }

UnitInit(ids) ==
    /\ pc = [l \in ids |-> "unsubmitted"]
    /\ tries = [l \in ids |-> 0]
    /\ requests = [l \in ids |-> 0]
    /\ slept = [l \in ids |-> <<>>]
    /\ res = [l \in ids |-> NoRes]
    /\ zipf = [l \in ids |-> <<>>]
    /\ idx = [l \in ids |-> 0]
    /\ result = [l \in ids |-> "unset"]
    /\ outcome = [l \in ids |-> "Pending"]
    /\ touched = [l \in ids |-> {}]
    /\ log = [l \in ids |-> <<>>]

PoolInitFor(n) ==
    /\ total = n
    /\ mainpc = "submit"
    /\ submitted = 0
    /\ nqueued = 0
    /\ running = 0
    /\ nfinished = 0
    /\ completed = 0

\* Before the run a law's location is absent or holds an earlier download.
Init ==
    /\ laws \in InputLists
    /\ PoolInitFor(Len(laws))
    /\ UnitInit(LawIds)
    /\ old \in SUBSET Range(laws)
    /\ run = 1
    /\ prev = NoPrev
    /\ inflight = {}
    /\ dirs = {<<>>} \cup UNION { StaleDirs(l) : l \in old }
    /\ files = [ f \in UNION { StaleFiles(l) : l \in old } |-> Stale ]

----------------------------------------------------------------------------
(* The pool: ThreadPoolExecutor(max_workers=50), submit, as_completed *)

\* a pool that starts a thread for every work item
SlotFreeAlways == TRUE

\* a pool that starts no work item while a worker sleeps in backoff
SlotFreeNoSleeper ==
    running < MaxWorkers /\ \A l \in DOMAIN pc : pc[l] # "sleep"

\* a worker thread exists or can be created for the next work item
SlotFree == running < MaxWorkers

\* executor.submit(self.download_and_store, law)
SubmitItem ==
    /\ mainpc = "submit"
    /\ submitted < total
    /\ submitted' = submitted + 1
    /\ nqueued' = nqueued + 1
    /\ UNCHANGED <<total, mainpc, running, nfinished, completed>>

\* the dict comprehension is complete, as_completed starts
AllSubmittedStep ==
    /\ mainpc = "submit"
    /\ submitted = total
    /\ mainpc' = "collect"
    /\ UNCHANGED <<total, submitted, nqueued, running, nfinished, completed>>

\* a worker takes the oldest work item off the queue
StartItem ==
    /\ nqueued > 0
    /\ SlotFree
    /\ nqueued' = nqueued - 1
    /\ running' = running + 1
    /\ UNCHANGED <<total, mainpc, submitted, nfinished, completed>>

\* the work item returned or raised: the future is finished, the worker is idle
FinishItem ==
    /\ running' = running - 1
    /\ nfinished' = nfinished + 1
    /\ UNCHANGED <<total, mainpc, submitted, nqueued, completed>>

\* as_completed yields one finished future, tqdm counts it
CollectItem ==
    /\ mainpc = "collect"
    /\ nfinished > 0
    /\ nfinished' = nfinished - 1
    /\ completed' = completed + 1
    /\ UNCHANGED <<total, mainpc, submitted, nqueued, running>>

\* a loop over the futures finished so far, which does not wait for the rest
ReturnStepEarly ==
    /\ mainpc = "collect"
    /\ nfinished = 0
    /\ mainpc' = "done"
    /\ UNCHANGED <<total, submitted, nqueued, running, nfinished, completed>>

\* as_completed is exhausted; the with block shuts the executor down
ReturnStep ==
    /\ mainpc = "collect"
    /\ completed = total
    /\ mainpc' = "done"
    /\ UNCHANGED <<total, submitted, nqueued, running, nfinished, completed>>

\* the slug of the work item at the head of the queue
HeadOfQueue == laws[submitted - nqueued + 1]

----------------------------------------------------------------------------
(* One unit of work: download_and_store(law) *)

\* the unit moves on inside its worker thread
Continue(law, next) ==
    /\ pc' = [pc EXCEPT ![law] = next]
    /\ UNCHANGED <<result, poolvars>>

\* the unit returns r or raises r: the future finishes
Finish(law, r) ==
    /\ pc' = [pc EXCEPT ![law] = "finished"]
    /\ result' = [result EXCEPT ![law] = r]
    /\ FinishItem

\* a retry loop that gives up one attempt early
GiveUpEarly(t) == t >= RetryLimit

\* "if tries > 3: raise e"
GiveUp(t) == t > RetryLimit

\* a backoff of the same length after every failure
BackoffFlat(t) == SleepUnit

\* "time.sleep(tries * 3)"
Backoff(t) == t * SleepUnit

\* the lines printed: print(e), print(f"Sleeping {tries}" * 3),
\* print(f"Removing {law}"), print(f'{law} generated an exception: {exc}')
MsgError == [text |-> "error", n |-> 0, times |-> 1]
MsgSleeping(t) == [text |-> "Sleeping", n |-> t, times |-> 3]
MsgRemoving == [text |-> "Removing", n |-> 0, times |-> 1]
MsgException == [text |-> "generated an exception", n |-> 0, times |-> 1]

\* the lines download_law prints for the failed attempt that makes tries = t
RetryMessages(t) ==
    IF GiveUp(t) THEN << MsgError >> ELSE << MsgError, MsgSleeping(t) >>

\* a remove_law that leaves the tree in place
remove_law_kept(law) ==
    /\ UNCHANGED <<dirs, files>>
    /\ touched' = [touched EXCEPT ![law] = @ \cup {build_law_path(law)}]
    /\ log' = [log EXCEPT ![law] = Append(@, MsgRemoving)]

\* remove_law(law): print, shutil.rmtree(law_path, ignore_errors=True)
remove_law(law) ==
    /\ log' = [log EXCEPT ![law] = Append(@, MsgRemoving)]
    /\ dirs' = RmDirs(build_law_path(law))
    /\ files' = RmFiles(build_law_path(law))
    /\ touched' = [touched EXCEPT ![law] = @ \cup {build_law_path(law)}]

\* a store() that keeps the name of every structured entry
law_filename_kept(law, name) == build_law_path(law) \o << name >>

\* the file store() opens for a structured entry
law_filename(law, name) ==
    IF ~StartsWithMarker(name)
        THEN build_law_path(law) \o << CanonicalName(law) >>
        ELSE << name >>

\* the branch of load() taken for a finished future
OutcomeOf(r) ==
    IF r \in {"exc_net", "exc_parse", "exc_fs"} THEN "Failed"
    ELSE IF r = "zip" THEN "Stored"
    ELSE "Skipped"

\* the line load() prints for a future that ended as r
ReportMessages(r) ==
    IF OutcomeOf(r) = "Failed" THEN << MsgException >> ELSE << >>

\* the remote end in a second call of load(): the response it gave in the
\* first call, or no response again if it gave none
MayReturn(law, r) ==
    IF run = 1 THEN TRUE ELSE prev.answered[law] /\ r = prev.res[law]
MayRaise(law) ==
    IF run = 1 THEN TRUE
    ELSE IF prev.answered[law] THEN tries[law] < RetryLimit ELSE TRUE

Submit ==
    /\ SubmitItem
    /\ pc' = [pc EXCEPT ![laws[submitted + 1]] = "queued"]
    /\ UNCHANGED <<laws, old, run, prev, inflight, log, tries, requests, slept, res, zipf, idx, result,
                   outcome, touched, fsvars>>

AllSubmitted ==
    /\ AllSubmittedStep
    /\ UNCHANGED <<laws, old, run, prev, inflight, unitvars, fsvars>>

\* a worker that clears the law's location as soon as it takes the work item
StartEager ==
    /\ StartItem
    /\ pc' = [pc EXCEPT ![HeadOfQueue] = "fetch"]
    /\ remove_law(HeadOfQueue)
    /\ UNCHANGED <<laws, old, run, prev, inflight, tries, requests, slept, res, zipf, idx, result,
                   outcome>>

\* a worker thread takes the work item and calls download_and_store(law)
Start ==
    /\ StartItem
    /\ pc' = [pc EXCEPT ![HeadOfQueue] = "fetch"]
    /\ UNCHANGED <<laws, old, run, prev, inflight, log, tries, requests, slept, res, zipf, idx, result,
                   outcome, touched, fsvars>>

\* a download_law that removes the law's location before it gives up
FetchRaiseCleanup(law) ==
    /\ pc[law] = "fetch"
    /\ requests' = [requests EXCEPT ![law] = @ + 1]
    /\ tries' = [tries EXCEPT ![law] = @ + 1]
    /\ MayRaise(law)
    /\ log' = [log EXCEPT ![law] = @ \o RetryMessages(tries[law] + 1)]
    /\ IF GiveUp(tries[law] + 1)
          THEN /\ Finish(law, "exc_net")
               /\ dirs' = RmDirs(build_law_path(law))
               /\ files' = RmFiles(build_law_path(law))
               /\ touched' = [touched EXCEPT ![law] = @ \cup {build_law_path(law)}]
          ELSE /\ Continue(law, "sleep")
               /\ UNCHANGED <<touched, fsvars>>
    /\ UNCHANGED <<laws, old, run, prev, inflight, slept, res, zipf, idx, outcome>>

\* requests.get raises: lines 58-65
FetchRaise(law) ==
    /\ pc[law] = "fetch"
    /\ requests' = [requests EXCEPT ![law] = @ + 1]
    /\ tries' = [tries EXCEPT ![law] = @ + 1]
    /\ MayRaise(law)
    /\ log' = [log EXCEPT ![law] = @ \o RetryMessages(tries[law] + 1)]
    /\ IF GiveUp(tries[law] + 1)
          THEN Finish(law, "exc_net")
          ELSE Continue(law, "sleep")
    /\ UNCHANGED <<laws, old, run, prev, inflight, slept, res, zipf, idx, outcome, touched, fsvars>>

\* time.sleep(tries * 3), then the loop tries again
Sleep(law) ==
    /\ pc[law] = "sleep"
    /\ slept' = [slept EXCEPT ![law] = Append(@, Backoff(tries[law]))]
    /\ Continue(law, "fetch")
    /\ UNCHANGED <<laws, old, run, prev, inflight, log, tries, requests, res, zipf, idx, outcome, touched, fsvars>>

\* a retry loop that backs off after every request, the answered one too
FetchReturnSlow(law) ==
    /\ pc[law] = "fetch"
    /\ requests' = [requests EXCEPT ![law] = @ + 1]
    /\ \E r \in Responses :
          /\ MayReturn(law, r)
          /\ res' = [res EXCEPT ![law] = r]
    /\ slept' = [slept EXCEPT ![law] = Append(@, Backoff(tries[law] + 1))]
    /\ Continue(law, "open")
    /\ UNCHANGED <<laws, old, run, prev, inflight, log, tries, zipf, idx, outcome, touched, fsvars>>

\* requests.get returns a response (whatever its status): lines 57, 66-67
FetchReturn(law) ==
    /\ pc[law] = "fetch"
    /\ requests' = [requests EXCEPT ![law] = @ + 1]
    /\ \E r \in Responses :
          /\ MayReturn(law, r)
          /\ res' = [res EXCEPT ![law] = r]
    /\ Continue(law, "open")
    /\ UNCHANGED <<laws, old, run, prev, inflight, log, tries, slept, zipf, idx, outcome, touched, fsvars>>

\* a download_law that does not catch BadZipfile
OpenUncaught(law) ==
    /\ pc[law] = "open"
    /\ IF res[law].zip
          THEN /\ zipf' = [zipf EXCEPT ![law] = res[law].entries]
               /\ Continue(law, "store")
          ELSE /\ Finish(law, "exc_fs")
               /\ UNCHANGED zipf
    /\ UNCHANGED <<laws, old, run, prev, inflight, log, tries, requests, slept, res, idx, outcome, touched, fsvars>>

\* zipfile.ZipFile(BytesIO(res.content)): lines 68-70, 73, 76-78
Open(law) ==
    /\ pc[law] = "open"
    /\ IF res[law].zip
          THEN /\ zipf' = [zipf EXCEPT ![law] = res[law].entries]
               /\ Continue(law, "store")
          ELSE /\ Continue(law, "cleanup")
               /\ UNCHANGED zipf
    /\ UNCHANGED <<laws, old, run, prev, inflight, log, tries, requests, slept, res, idx, outcome, touched, fsvars>>

\* except BadZipfile: remove_law(law); return None: lines 71-72, 79
Cleanup(law) ==
    /\ pc[law] = "cleanup"
    /\ remove_law(law)
    /\ Finish(law, "none")
    /\ UNCHANGED <<laws, old, run, prev, inflight, tries, requests, slept, res, zipf, idx, outcome>>

\* store: self.remove_law(law): line 106
StoreRemove(law) ==
    /\ pc[law] = "store"
    /\ remove_law(law)
    /\ Continue(law, "mkdir")
    /\ UNCHANGED <<laws, old, run, prev, inflight, tries, requests, slept, res, zipf, idx, outcome>>

\* store: law_path.mkdir(parents=True): line 109
StoreMkdir(law) ==
    /\ pc[law] = "mkdir"
    /\ IF build_law_path(law) \in dirs \cup DOMAIN files
          THEN /\ Finish(law, "exc_fs")
               /\ UNCHANGED <<dirs, idx, touched>>
          ELSE /\ dirs' = dirs \cup Ancestors(build_law_path(law))
               /\ touched' = [touched EXCEPT ![law] = @ \cup {build_law_path(law)}]
               /\ idx' = [idx EXCEPT ![law] = 1]
               /\ Continue(law, "entry")
    /\ UNCHANGED <<laws, old, run, prev, inflight, log, tries, requests, slept, res, zipf, outcome, files>>

\* store: one pass of "for name in zipf.namelist()": lines 110-126
StoreEntry(law) ==
    /\ pc[law] = "entry"
    /\ idx[law] <= Len(zipf[law])
    /\ LET e == zipf[law][idx[law]]
           target == IF EndsWithXml(e.name)
                        THEN law_filename(law, e.name)
                        ELSE build_law_path(law) \o << e.name >>
           content == IF EndsWithXml(e.name) THEN Pretty(e.data) ELSE Verbatim(e.data)
       IN  IF EndsWithXml(e.name) /\ ~ParseOk(e.data)
              THEN /\ Finish(law, "exc_parse")
                   /\ UNCHANGED <<idx, touched, fsvars>>
           ELSE IF Parent(target) \notin dirs \/ target \in dirs
              THEN /\ Finish(law, "exc_fs")
                   /\ UNCHANGED <<idx, touched, fsvars>>
           ELSE /\ files' = WriteFile(target, content)
                /\ touched' = [touched EXCEPT ![law] = @ \cup {target}]
                /\ idx' = [idx EXCEPT ![law] = @ + 1]
                /\ Continue(law, "entry")
                /\ UNCHANGED dirs
    /\ UNCHANGED <<laws, old, run, prev, inflight, log, tries, requests, slept, res, zipf, outcome>>

\* store returns, download_and_store returns (law, zipfile): line 79
StoreReturn(law) ==
    /\ pc[law] = "entry"
    /\ idx[law] > Len(zipf[law])
    /\ Finish(law, "zip")
    /\ UNCHANGED <<laws, old, run, prev, inflight, log, tries, requests, slept, res, zipf, idx, outcome, touched, fsvars>>

\* an as_completed loop without the try/except: the exception of a future
\* leaves load()
CollectUncaught(law) ==
    /\ mainpc = "collect"
    /\ pc[law] = "finished"
    /\ outcome[law] = "Pending"
    /\ IF OutcomeOf(result[law]) = "Failed"
          THEN /\ mainpc' = "raised"
               /\ UNCHANGED <<nfinished, completed, outcome>>
          ELSE /\ nfinished > 0
               /\ nfinished' = nfinished - 1
               /\ completed' = completed + 1
               /\ outcome' = [outcome EXCEPT ![law] = OutcomeOf(result[law])]
               /\ UNCHANGED mainpc
    /\ log' = [log EXCEPT ![law] = @ \o ReportMessages(result[law])]
    /\ UNCHANGED <<laws, old, run, prev, inflight, total, submitted, nqueued, running, pc, tries,
                   requests, slept, res, zipf, idx, result, touched, fsvars>>

\* one pass of the as_completed loop: lines 86-94
Collect(law) ==
    /\ CollectItem
    /\ pc[law] = "finished"
    /\ outcome[law] = "Pending"
    /\ outcome' = [outcome EXCEPT ![law] = OutcomeOf(result[law])]
    /\ log' = [log EXCEPT ![law] = @ \o ReportMessages(result[law])]
    /\ UNCHANGED <<laws, old, run, prev, inflight, pc, tries, requests, slept, res, zipf, idx, result,
                   touched, fsvars>>

Return ==
    /\ ReturnStep
    /\ UNCHANGED <<laws, old, run, prev, inflight, unitvars, fsvars>>

Next ==
    \/ Submit
    \/ AllSubmitted
    \/ Start
    \/ \E law \in LawIds :
          \/ FetchRaise(law)
          \/ Sleep(law)
          \/ FetchReturn(law)
          \/ Open(law)
          \/ Cleanup(law)
          \/ StoreRemove(law)
          \/ StoreMkdir(law)
          \/ StoreEntry(law)
          \/ StoreReturn(law)
          \/ Collect(law)
    \/ Return

Spec == Init /\ [][Next]_vars

\* every thread that can take a step is scheduled, and every request made
\* returns or raises
FairSpec == Spec /\ WF_vars(Next)

----------------------------------------------------------------------------
(* A run that is interrupted: KeyboardInterrupt in the thread running load() *)

InFlight(law) ==
    pc[law] \in {"fetch", "sleep", "open", "cleanup", "store", "mkdir", "entry"}

\* KeyboardInterrupt is raised in the main thread inside the with block:
\* the comprehension or the as_completed loop is left, and the executor's
\* __exit__ runs shutdown(wait=True), which cancels no queued work item
Interrupt ==
    /\ mainpc \in {"submit", "collect"}
    /\ mainpc' = "interrupted"
    /\ inflight' = { law \in Range(laws) : InFlight(law) }
    /\ UNCHANGED <<laws, old, run, prev, total, submitted, nqueued, running,
                   nfinished, completed, unitvars, fsvars>>

\* shutdown has joined every worker; the exception reaches __main__, which
\* prints 'Aborted'
Aborted ==
    /\ mainpc = "interrupted"
    /\ nqueued = 0
    /\ running = 0
    /\ mainpc' = "aborted"
    /\ UNCHANGED <<laws, old, run, prev, inflight, total, submitted, nqueued,
                   running, nfinished, completed, unitvars, fsvars>>

IntNext ==
    \/ Next
    \/ Interrupt
    \/ Aborted

IntSpec == Init /\ [][IntNext]_vars

----------------------------------------------------------------------------
(* Two calls of load() in succession on the same list, the remote end     *)
(* unchanged between them                                                  *)

\* load() has returned and is called again: every local of the first call
\* is gone, the filesystem is what the first call left
Rerun ==
    /\ mainpc = "done"
    /\ run = 1
    /\ run' = 2
    /\ prev' = [answered |-> [l \in LawIds |-> requests[l] = tries[l] + 1],
                res |-> res, outcome |-> outcome, dirs |-> dirs, files |-> files]
    /\ old' = { l \in Range(laws) : build_law_path(l) \in dirs }
    /\ total' = Len(laws)
    /\ mainpc' = "submit"
    /\ submitted' = 0
    /\ nqueued' = 0
    /\ running' = 0
    /\ nfinished' = 0
    /\ completed' = 0
    /\ pc' = [l \in LawIds |-> "unsubmitted"]
    /\ tries' = [l \in LawIds |-> 0]
    /\ requests' = [l \in LawIds |-> 0]
    /\ slept' = [l \in LawIds |-> <<>>]
    /\ res' = [l \in LawIds |-> NoRes]
    /\ zipf' = [l \in LawIds |-> <<>>]
    /\ idx' = [l \in LawIds |-> 0]
    /\ result' = [l \in LawIds |-> "unset"]
    /\ outcome' = [l \in LawIds |-> "Pending"]
    /\ touched' = [l \in LawIds |-> {}]
    /\ log' = [l \in LawIds |-> <<>>]
    /\ UNCHANGED <<laws, inflight, fsvars>>

\* the list holds one identifier (or none)
TwoRunInit == Init /\ Len(laws) <= 1

TwoRunNext ==
    \/ Next
    \/ Rerun

TwoRunSpec == TwoRunInit /\ [][TwoRunNext]_vars

----------------------------------------------------------------------------
(* The pool alone: NPool laws, each unit of work reduced to its start and  *)
(* its end, so that more laws than workers are submitted.                  *)

Digits == <<"0", "1", "2", "3", "4", "5", "6", "7", "8", "9">>
PoolSlug(i) == << "n", Digits[(i \div 10) + 1], Digits[(i % 10) + 1] >>

PoolInit ==
    /\ laws = [i \in 1..NPool |-> PoolSlug(i)]
    /\ old = {}
    /\ run = 1
    /\ prev = NoPrev
    /\ inflight = {}
    /\ PoolInitFor(Len(laws))
    /\ UnitInit({})
    /\ dirs = {<<>>}
    /\ files = <<>>

PoolSubmit == SubmitItem /\ UNCHANGED <<laws, old, run, prev, inflight, unitvars, fsvars>>
PoolAllSubmitted == AllSubmittedStep /\ UNCHANGED <<laws, old, run, prev, inflight, unitvars, fsvars>>
PoolStart == StartItem /\ UNCHANGED <<laws, old, run, prev, inflight, unitvars, fsvars>>
PoolFinish == running > 0 /\ FinishItem /\ UNCHANGED <<laws, old, run, prev, inflight, unitvars, fsvars>>
PoolCollect == CollectItem /\ UNCHANGED <<laws, old, run, prev, inflight, unitvars, fsvars>>
PoolReturn == ReturnStep /\ UNCHANGED <<laws, old, run, prev, inflight, unitvars, fsvars>>

PoolNext ==
    \/ PoolSubmit
    \/ PoolAllSubmitted
    \/ PoolStart
    \/ PoolFinish
    \/ PoolCollect
    \/ PoolReturn

PoolSpec == PoolInit /\ [][PoolNext]_vars

----------------------------------------------------------------------------
(* Vocabulary of the properties *)

Submitted == Range(laws)
Finished(law) == pc[law] = "finished"
Reported(law) == outcome[law] # "Pending"

\* every requests.get call made for the law so far has raised
NeverAnswered(law) == tries[law] = requests[law]
Answered(law) == requests[law] = tries[law] + 1

FilesUnder(p) == { f \in DOMAIN files : IsPrefix(p, f) }
DirsUnder(p) == { d \in dirs : IsPrefix(p, d) }

\* <root>/<firstChar>/<identifier>
Loc(law) == << Root, <<law[1]>>, law >>

\* the location does not exist
LocationAbsent(law) ==
    /\ DirsUnder(Loc(law)) = {}
    /\ FilesUnder(Loc(law)) = {}

IsStructured(e) == EndsWithXml(e.name)
IsMarked(e) == e.name[1] = "_"

\* positions of the structured entries that share the name <identifier>.xml,
\* and of the assets
Collapsed(entries) ==
    { i \in 1..Len(entries) : IsStructured(entries[i]) /\ ~IsMarked(entries[i]) }
Assets(entries) == { i \in 1..Len(entries) : ~IsStructured(entries[i]) }
LastOf(S) == CHOOSE i \in S : \A j \in S : j <= i

\* the files the entries of an archive give inside the law's location
ExpectedPaths(law, entries) ==
    { Loc(law) \o << entries[i].name >> : i \in Assets(entries) }
    \cup (IF Collapsed(entries) # {} THEN { Loc(law) \o << law \o Ext >> } ELSE {})

ExpectedContent(law, entries, f) ==
    IF f = Loc(law) \o << law \o Ext >>
        THEN [fmt |-> "pretty", data |-> entries[LastOf(Collapsed(entries))].data]
        ELSE [fmt |-> "raw",
              data |-> entries[LastOf({ i \in Assets(entries) :
                                         Loc(law) \o << entries[i].name >> = f })].data]

\* the location is a directory holding exactly the files of these entries
LocationHolds(law, entries) ==
    /\ DirsUnder(Loc(law)) = { Loc(law) }
    /\ FilesUnder(Loc(law)) = ExpectedPaths(law, entries)
    /\ \A f \in FilesUnder(Loc(law)) : files[f] = ExpectedContent(law, entries, f)

CanonicalFilesIn(law) ==
    { f \in FilesUnder(Loc(law)) : files[f].fmt = "pretty" }

HasMalformed(entries) ==
    \E i \in 1..Len(entries) :
        EndsWithXml(entries[i].name) /\ entries[i].data = Malformed

\* the outcome a law's unit has when only its own fetch results decide it
OwnOutcome(law) ==
    IF NeverAnswered(law) THEN "Failed"
    ELSE IF ~res[law].zip THEN "Skipped"
    ELSE IF HasMalformed(res[law].entries) THEN "Failed"
    ELSE "Stored"

----------------------------------------------------------------------------
(* C1. Retry bound: a law whose every request raises is requested exactly  *)
(* 4 times, its unit then raises and is reported Failed, and every other   *)
(* law of the run has the outcome its own fetch results give it.           *)
C1_RetryBound ==
    \A law \in Submitted :
        /\ requests[law] <= 4
        /\ (Finished(law) /\ NeverAnswered(law)) =>
              /\ requests[law] = 4
              /\ result[law] = "exc_net"
              /\ Reported(law) => outcome[law] = "Failed"
              /\ \A other \in Submitted \ {law} :
                    Reported(other) => outcome[other] = OwnOutcome(other)

C1_Witness ==
    /\ mainpc = "done"
    /\ \E law, other \in Submitted :
          /\ law # other
          /\ NeverAnswered(law) /\ requests[law] = 4 /\ outcome[law] = "Failed"
          /\ outcome[other] = "Stored"

----------------------------------------------------------------------------
(* C2. Concurrency isolation: when the run is over and exactly one law K   *)
(* never got an answer while every other unit succeeded, exactly one       *)
(* outcome is Failed and the N-1 others are Stored or Skipped; a unit that *)
(* raised neither ends the coordinator's loop nor blocks another unit:     *)
(* every started unit has a step to take, and a finished future is still   *)
(* going to be collected.                                                  *)
UnitEnabled(law) ==
    \/ ENABLED FetchRaise(law)
    \/ ENABLED Open(law)
    \/ ENABLED Cleanup(law)
    \/ ENABLED Sleep(law)
    \/ ENABLED StoreRemove(law)
    \/ ENABLED StoreMkdir(law)
    \/ ENABLED StoreEntry(law)
    \/ ENABLED StoreReturn(law)

OnlyFails(k) ==
    /\ NeverAnswered(k)
    /\ \A other \in Submitted \ {k} :
          Answered(other) /\ ~HasMalformed(res[other].entries)

C2_Isolation ==
    /\ mainpc \in {"submit", "collect", "done"}
    /\ \A law \in Submitted :
          /\ pc[law] \in {"fetch", "sleep", "open", "cleanup", "store", "mkdir", "entry"}
                => UnitEnabled(law)
          /\ (Finished(law) /\ ~Reported(law)) => mainpc \in {"submit", "collect"}
    /\ mainpc = "done" =>
          /\ \A law \in Submitted : Finished(law) /\ Reported(law)
          /\ \A k \in Submitted : OnlyFails(k) =>
                /\ { law \in Submitted : outcome[law] = "Failed" } = {k}
                /\ Cardinality({ law \in Submitted :
                                   outcome[law] \in {"Stored", "Skipped"} })
                      = Len(laws) - 1

C2_Witness ==
    /\ mainpc = "done"
    /\ Len(laws) = 2
    /\ OnlyFails(laws[1])
    /\ outcome[laws[1]] = "Failed"
    /\ outcome[laws[2]] = "Skipped"

----------------------------------------------------------------------------
(* C3. Invalid archive: once the unit of a law whose response body is not  *)
(* an archive has finished, the law's location does not exist, whether or  *)
(* not it existed before the run, and the unit is Skipped, not Failed.     *)
C3_InvalidArchiveCleanup ==
    \A law \in Submitted :
        (Finished(law) /\ Answered(law) /\ ~res[law].zip) =>
            /\ LocationAbsent(law)
            /\ result[law] = "none"
            /\ Reported(law) => outcome[law] = "Skipped"

C3_Witness ==
    \E law \in Submitted :
        /\ law \in old
        /\ Finished(law) /\ Answered(law) /\ ~res[law].zip
        /\ LocationAbsent(law)
        /\ outcome[law] = "Skipped"

----------------------------------------------------------------------------
(* C4 as stated: after the unit of a law whose response is a valid archive *)
(* with at least one .xml entry has completed (store returned), the        *)
(* location holds exactly one canonical file, <identifier>.xml, whatever   *)
(* the entries' names are ('_' names included).                            *)
C4_AsStated ==
    \A law \in Submitted :
        ( /\ result[law] = "zip"
          /\ \E i \in 1..Len(res[law].entries) : IsStructured(res[law].entries[i]) )
        => CanonicalFilesIn(law) = { Loc(law) \o << law \o Ext >> }

(* C4 as amended: when the unit has completed and at least one structured  *)
(* entry has a name that does not begin with '_', the location holds       *)
(* exactly one canonical file, <identifier>.xml, however many such entries *)
(* there are; when every structured entry's name begins with '_', the      *)
(* location holds no file <identifier>.xml.                                *)
C4_OneCanonicalFile ==
    \A law \in Submitted :
        result[law] = "zip" =>
            /\ Collapsed(res[law].entries) # {}
                  => CanonicalFilesIn(law) = { Loc(law) \o << law \o Ext >> }
            /\ Collapsed(res[law].entries) = {}
                  => Loc(law) \o << law \o Ext >> \notin DOMAIN files

C4_Witness ==
    \E law \in Submitted :
        /\ result[law] = "zip"
        /\ Cardinality(Collapsed(res[law].entries)) = 2
        /\ CanonicalFilesIn(law) = { Loc(law) \o << law \o Ext >> }
        /\ \E other \in Submitted :
              /\ result[other] = "zip"
              /\ \E i \in 1..Len(res[other].entries) : IsMarked(res[other].entries[i])

----------------------------------------------------------------------------
(* C5. Replace, not merge: whenever a unit has ended Stored, the location  *)
(* is a directory holding exactly the files of the archive fetched in this *)
(* run, none of them from before the run; and no step writes a file into a *)
(* location that still holds a file from before the run.                   *)
NewlyWritten(law) ==
    { f \in DOMAIN files' :
        /\ IsPrefix(Loc(law), f)
        /\ (f \notin DOMAIN files \/ files'[f] # files[f]) }

StoredReplaces ==
    \A law \in Submitted :
        result[law] = "zip" =>
            /\ LocationHolds(law, res[law].entries)
            /\ \A f \in FilesUnder(Loc(law)) : files[f].fmt # "stale"

RemovalFirst ==
    \A law \in Submitted :
        NewlyWritten(law) # {} =>
            \A g \in FilesUnder(Loc(law)) : files[g].fmt # "stale"

C5_ReplaceNotMerge == [] StoredReplaces /\ [][RemovalFirst]_vars

C5_Witness ==
    \E law \in Submitted :
        /\ law \in old
        /\ outcome[law] = "Stored"
        /\ Cardinality(FilesUnder(Loc(law))) = 2

----------------------------------------------------------------------------
(* C6 as stated: a law whose endpoint answers 404 is reported Failed after *)
(* exactly 4 requests and has no location after the run.                   *)
C6_AsStated ==
    \A law \in Submitted :
        (Finished(law) /\ Answered(law) /\ res[law].status = 404) =>
            /\ requests[law] = 4
            /\ OutcomeOf(result[law]) = "Failed"
            /\ LocationAbsent(law)

(* C6 as amended: a 404 answer is a response, not an exception: it is not  *)
(* retried (one request when no network error came before it), its body is *)
(* not an archive, so the unit is reported Skipped, not Failed, and the law *)
(* has no location after the run.                                          *)
C6_NotFoundSkipped ==
    \A law \in Submitted :
        (Answered(law) /\ res[law].status = 404) =>
            /\ requests[law] = tries[law] + 1
            /\ tries[law] = 0 => requests[law] = 1
            /\ pc[law] \in {"open", "cleanup", "finished"}
            /\ Finished(law) =>
                  /\ result[law] = "none"
                  /\ LocationAbsent(law)
                  /\ Reported(law) => outcome[law] = "Skipped"

C6_Witness ==
    \E law \in Submitted :
        /\ mainpc = "done"
        /\ law \in old
        /\ res[law].status = 404
        /\ requests[law] = 1
        /\ outcome[law] = "Skipped"
        /\ LocationAbsent(law)

----------------------------------------------------------------------------
(* C7 as stated: when a structured entry fails to parse the unit ends      *)
(* Failed and the location holds no freshly created directory and no       *)
(* subset of the archive's entries.                                        *)
FreshDir(law) ==
    /\ Loc(law) \in dirs
    /\ \A f \in FilesUnder(Loc(law)) : files[f].fmt # "stale"

FirstMalformed(entries) ==
    CHOOSE i \in 1..Len(entries) :
        /\ IsStructured(entries[i]) /\ entries[i].data = Malformed
        /\ \A j \in 1..(i - 1) :
              ~(IsStructured(entries[j]) /\ entries[j].data = Malformed)

C7_AsStated ==
    \A law \in Submitted :
        (Finished(law) /\ Answered(law) /\ res[law].zip
            /\ HasMalformed(res[law].entries)) =>
            /\ OutcomeOf(result[law]) = "Failed"
            /\ ~FreshDir(law)

(* C7 as amended: the unit ends Failed and nothing is written for the      *)
(* malformed entry or for any entry after it; the old location has been    *)
(* removed and a freshly created directory holds the files of the entries  *)
(* that come before the malformed one.                                     *)
C7_MalformedFails ==
    \A law \in Submitted :
        (Finished(law) /\ Answered(law) /\ res[law].zip
            /\ HasMalformed(res[law].entries)) =>
            /\ result[law] = "exc_parse"
            /\ Reported(law) => outcome[law] = "Failed"
            /\ FreshDir(law)
            /\ LocationHolds(law, SubSeq(res[law].entries, 1,
                                         FirstMalformed(res[law].entries) - 1))

C7_Witness ==
    \E law \in Submitted :
        /\ law \in old
        /\ outcome[law] = "Failed"
        /\ result[law] = "exc_parse"
        /\ FirstMalformed(res[law].entries) = 2
        /\ FilesUnder(Loc(law)) = { Loc(law) \o << law \o Ext >> }

----------------------------------------------------------------------------
(* C8 as stated: no path is written or removed by the units of two laws,   *)
(* and every path a unit writes or removes lies inside the law's own       *)
(* location, the path of a structured entry named '_...' included.         *)
C8_Partitioned ==
    \A law \in Submitted :
        /\ \A p \in touched[law] : IsPrefix(Loc(law), p)
        /\ \A other \in Submitted \ {law} : touched[law] \cap touched[other] = {}

----------------------------------------------------------------------------
(* C9. Pool bound: at most 50 units are in flight in every state, the laws *)
(* submitted beyond that wait in the queue, and a unit starts only in a    *)
(* state where fewer than 50 are in flight.                                *)
InFlightBound ==
    /\ running <= 50
    /\ submitted = nqueued + running + nfinished + completed
    /\ nqueued >= submitted - nfinished - completed - 50

StartsOnFreeSlot == running' > running => running < 50

C9_PoolBound == [] InFlightBound /\ [][StartsOnFreeSlot]_vars

\* in the specification with the units, the busy workers are the units in
\* flight, the ones sleeping in backoff included
RunningIsInFlight ==
    running = Cardinality({ law \in Submitted :
                  pc[law] \in {"fetch", "sleep", "open", "cleanup", "store",
                               "mkdir", "entry"} })

C9_Witness ==
    /\ running = 50
    /\ nqueued = 2
    /\ nfinished + completed = 0

----------------------------------------------------------------------------
(* C10. Totality and termination: load() eventually returns, and when it  *)
(* has returned every submitted law's unit has finished and has exactly    *)
(* one outcome among Stored, Skipped and Failed, and the progress count    *)
(* equals the total; no exception of a unit ends the run earlier.          *)
AllAccounted ==
    /\ completed = total
    /\ total = Len(laws)
    /\ \A law \in Submitted :
          /\ Finished(law)
          /\ outcome[law] \in {"Stored", "Skipped", "Failed"}
          /\ outcome[law] = "Failed" <=> result[law] \in {"exc_net", "exc_parse", "exc_fs"}

C10_Terminates ==
    /\ <>(mainpc = "done")
    /\ [](mainpc = "done" => AllAccounted)

C10_Witness ==
    /\ mainpc = "done"
    /\ Len(laws) = 2
    /\ outcome[laws[1]] = "Failed" /\ result[laws[1]] = "exc_parse"
    /\ outcome[laws[2]] = "Stored"

-----------------------------------------------------------------------------
(* C11: what load() reports *)

\* the lines a run printed for one identifier, retry and removal lines and
\* the line of the coordinator
ReportOf(law) == log[law]

\* C11 (as stated): at the end of a run the report tells Stored, Skipped
\* and Failed apart: two identifiers with the same report have the same
\* outcome
C11_Observable ==
    mainpc = "done" =>
        \A l1, l2 \in Submitted :
            ReportOf(l1) = ReportOf(l2) => outcome[l1] = outcome[l2]

-----------------------------------------------------------------------------
(* C12: cancellation *)

\* a unit that had not started when the step is taken does not start in it
NoLateStart ==
    \A law \in Submitted :
        pc[law] \in {"unsubmitted", "queued"} => pc'[law] = pc[law]

\* the locations of the identifiers that were not in flight at the
\* interrupt are left as they are
OthersUntouched ==
    \A law \in Submitted \ inflight :
        /\ { d \in dirs' : IsPrefix(Loc(law), d) } = DirsUnder(Loc(law))
        /\ { f \in DOMAIN files' : IsPrefix(Loc(law), f) } = FilesUnder(Loc(law))
        /\ \A f \in FilesUnder(Loc(law)) : files'[f] = files[f]

\* C12 (as stated): after KeyboardInterrupt in the thread running load() no
\* unit that had not yet started begins executing, and the locations of
\* the identifiers that were not in flight at the interrupt do not change
C12_Cancelled ==
    [][mainpc = "interrupted" => NoLateStart /\ OthersUntouched]_vars

-----------------------------------------------------------------------------
(* C13: idempotence of load() *)

\* the canonical document of the law in a filesystem given by its files
CanonicalDoc(fs, law) ==
    IF Loc(law) \o << law \o Ext >> \in DOMAIN fs
        THEN fs[Loc(law) \o << law \o Ext >>]
        ELSE [fmt |-> "absent", data |-> "none"]

SecondRunDone == run = 2 /\ mainpc = "done"

\* C13: when load() is run a second time on the same identifier and the
\* remote end answers as in the first run (the same valid archive, the
\* same invalid archive, or no answer again), the directories and files
\* after the second run are those after the first, and the canonical
\* document has the same content
C13_Idempotent ==
    SecondRunDone =>
        /\ dirs = prev.dirs
        /\ files = prev.files
        /\ \A law \in Submitted :
              /\ CanonicalDoc(files, law) = CanonicalDoc(prev.files, law)
              /\ outcome[law] = prev.outcome[law]

\* the second run of a law stored twice from an archive of two documents,
\* the second time after a retry
C13_Witness ==
    /\ SecondRunDone
    /\ \E law \in Submitted :
          /\ outcome[law] = "Stored"
          /\ prev.outcome[law] = "Stored"
          /\ tries[law] = 1
          /\ CanonicalDoc(files, law) = [fmt |-> "pretty", data |-> "d2"]

-----------------------------------------------------------------------------
(* C14: linear backoff *)

\* the lines printed for the exception of a failed attempt (print(e))
ErrorLines(law) == { i \in DOMAIN log[law] : log[law][i].text = "error" }

\* C14: the k-th failed attempt (k = 1, 2, 3) is followed by a sleep of
\* 3*k seconds, which is over before the next request is made; the 4th
\* failed attempt is followed by no sleep and ends the unit with the
\* exception; one line is printed for the exception of every failed attempt
C14_LinearBackoff ==
    \A law \in Submitted :
        /\ slept[law] = [k \in 1..Len(slept[law]) |-> 3 * k]
        /\ pc[law] = "sleep" =>
              tries[law] \in 1..3 /\ Len(slept[law]) = tries[law] - 1
        /\ (pc[law] # "sleep" /\ tries[law] <= 3) =>
              Len(slept[law]) = tries[law]
        /\ requests[law] <= Len(slept[law]) + 1
        /\ tries[law] >= 4 =>
              /\ tries[law] = 4
              /\ slept[law] = <<3, 6, 9>>
              /\ pc[law] = "finished"
              /\ result[law] = "exc_net"
        /\ Cardinality(ErrorLines(law)) = tries[law]

\* a unit whose four attempts failed, after sleeps of 3, 6 and 9 seconds
C14_Witness ==
    \E law \in Submitted :
        /\ tries[law] = 4
        /\ slept[law] = <<3, 6, 9>>
        /\ result[law] = "exc_net"
        /\ Cardinality(ErrorLines(law)) = 4

-----------------------------------------------------------------------------
(* C15: order of the steps of one unit *)

\* the location is as it was when load() was called: the earlier download,
\* or nothing
AsBeforeRun(law) ==
    IF law \in old
        THEN /\ DirsUnder(Loc(law)) = { Loc(law) }
             /\ FilesUnder(Loc(law)) =
                    { Loc(law) \o << law \o Ext >>, Loc(law) \o << <<"o">> >> }
             /\ \A f \in FilesUnder(Loc(law)) : files[f] = [fmt |-> "stale", data |-> "old"]
        ELSE LocationAbsent(law)

FetchInProgress(law) == pc[law] \in {"fetch", "sleep"}
FetchComplete(law) == Answered(law) /\ pc[law] \notin {"fetch", "sleep"}
OpenComplete(law) ==
    /\ FetchComplete(law)
    /\ IF res[law].zip THEN zipf[law] = res[law].entries ELSE pc[law] = "cleanup"

\* the step removes, creates or writes a path of the law's storage
StorageAction(law) ==
    \/ touched'[law] # touched[law]
    \/ { d \in dirs' : IsPrefix(Loc(law), d) } # DirsUnder(Loc(law))
    \/ { f \in DOMAIN files' : IsPrefix(Loc(law), f) } # FilesUnder(Loc(law))
    \/ \E f \in FilesUnder(Loc(law)) : files'[f] # files[f]

\* until its archive is open the unit has left the storage alone
NothingBeforeOpen ==
    \A law \in Submitted :
        pc[law] \in {"unsubmitted", "queued", "fetch", "sleep", "open"} =>
            touched[law] = {} /\ AsBeforeRun(law)

\* the archive is opened after the last request, and a storage action is
\* taken after the open
StepOrder ==
    \A law \in Submitted :
        /\ pc[law] = "open" => FetchComplete(law)
        /\ pc'[law] = "open" => FetchInProgress(law) \/ pc[law] = "open"
        /\ requests'[law] # requests[law] => FetchInProgress(law)
        /\ StorageAction(law) => OpenComplete(law) /\ ~FetchInProgress(law)

\* C15: within one unit the fetch, retries included, is over before the
\* archive is opened, and the open is over before the law's storage is
\* modified (old location removed, directory created, file written); no
\* storage action of a law is taken while its fetch is in progress
C15_StepOrder == [] NothingBeforeOpen /\ [][StepOrder]_vars

\* a unit that retried, got a valid archive and has written its first file
C15_Witness ==
    \E law \in Submitted :
        /\ tries[law] >= 1
        /\ pc[law] = "entry"
        /\ idx[law] = 2
        /\ law \in old
        /\ touched[law] # {}

-----------------------------------------------------------------------------
(* C16: a worker in backoff does not stall the pool *)

Sleeping(law) == pc[law] = "sleep"

\* C16: while a worker sleeps in backoff, every other unit in flight has a
\* step it can take, a queued work item can start whenever fewer than 50
\* workers are busy, and the busy workers are exactly the units in flight,
\* the sleeping one counted once
C16_BackoffNoStall ==
    \A s \in Submitted :
        Sleeping(s) =>
            /\ \A other \in Submitted \ {s} :
                  InFlight(other) => UnitEnabled(other)
            /\ (nqueued > 0 /\ running < 50) => ENABLED Start
            /\ RunningIsInFlight

\* one worker sleeps after its second failure while another writes entries
C16_Witness ==
    \E s, other \in Submitted :
        /\ Sleeping(s)
        /\ tries[s] = 2
        /\ pc[other] = "entry"

-----------------------------------------------------------------------------
(* C17: frame of a unit whose fetch failed *)

FetchExhausted(law) == result[law] = "exc_net"

\* C17: a unit that ends with the exception of its 4th failed request has
\* taken no storage action: it has touched no path, never entered store,
\* and its location is as it was before the run, stale content included
C17_FetchFailureFrame ==
    \A law \in Submitted :
        FetchExhausted(law) =>
            /\ NeverAnswered(law)
            /\ touched[law] = {}
            /\ zipf[law] = <<>> /\ idx[law] = 0
            /\ AsBeforeRun(law)
            /\ Reported(law) => outcome[law] = "Failed"

\* a law with an earlier download, reported Failed after four failed
\* requests, while the other law of the run was stored
C17_Witness ==
    \E law, other \in Submitted :
        /\ FetchExhausted(law)
        /\ outcome[law] = "Failed"
        /\ law \in old
        /\ Loc(law) \o << <<"o">> >> \in DOMAIN files
        /\ outcome[other] = "Stored"

-----------------------------------------------------------------------------
(* C18: the retry loop is left at the first answer *)

\* the sum of a sequence of numbers
SumSeq(s) ==
    LET partial[i \in 0..Len(s)] == IF i = 0 THEN 0 ELSE partial[i - 1] + s[i]
    IN  partial[Len(s)]

\* 1 + ... + n
SumTo(n) == SumSeq([i \in 1..n |-> i])

\* a unit answered at its k-th request has made k requests after k-1
\* failures and has slept 3*(1+...+(k-1)) seconds; the counters stay
\* within 4
AnsweredAtK ==
    \A law \in Submitted :
        /\ tries[law] <= 4
        /\ requests[law] <= 4
        /\ Answered(law) =>
              /\ requests[law] \in 1..4
              /\ tries[law] = requests[law] - 1
              /\ SumSeq(slept[law]) = 3 * SumTo(requests[law] - 1)
              /\ pc[law] \notin {"unsubmitted", "queued", "fetch", "sleep"}

\* the answer takes the unit to the archive open, and an answered unit
\* makes no further request and sleeps no more
NoRequestAfterAnswer ==
    \A law \in Submitted :
        /\ (~Answered(law) /\ requests'[law] = tries'[law] + 1) => pc'[law] = "open"
        /\ Answered(law) =>
              /\ requests'[law] = requests[law]
              /\ tries'[law] = tries[law]
              /\ slept'[law] = slept[law]

\* C18: when the fetch of a law first succeeds at attempt k (1 <= k <= 4),
\* exactly k requests are made for it in the run, the sleeps before the
\* answer add up to 3*(1+...+(k-1)) seconds, the unit goes on to open the
\* archive without another request, and the attempt counter never exceeds 4
C18_EarlyExit == [] AnsweredAtK /\ [][NoRequestAfterAnswer]_vars

\* a unit answered at its 4th request, after 18 seconds of sleep, and stored
C18_Witness ==
    \E law \in Submitted :
        /\ Answered(law)
        /\ requests[law] = 4
        /\ SumSeq(slept[law]) = 18
        /\ result[law] = "zip"

-----------------------------------------------------------------------------
(* C19: structured entries collapse to <identifier>.xml *)

\* the structured entries without the '_' marker that store has written
WrittenCollapsed(law) ==
    { i \in Collapsed(zipf[law]) : i < idx[law] }

\* C19: the structured entries of a valid archive whose names do not begin
\* with '_' are written in archive order to the one file <identifier>.xml:
\* at every point of store's loop the file holds the normalized content of
\* the last such entry written so far, and after the unit completes that of
\* the last such entry of the archive, the earlier ones being overwritten
C19_Collapse ==
    \A law \in Submitted :
        /\ (pc[law] \in {"entry", "finished"} /\ WrittenCollapsed(law) # {}) =>
              /\ Loc(law) \o << law \o Ext >> \in DOMAIN files
              /\ files[Loc(law) \o << law \o Ext >>] =
                    [fmt |-> "pretty",
                     data |-> zipf[law][LastOf(WrittenCollapsed(law))].data]
              /\ CanonicalFilesIn(law) = { Loc(law) \o << law \o Ext >> }
        /\ result[law] = "zip" =>
              WrittenCollapsed(law) = Collapsed(res[law].entries)

\* a stored law whose archive held two such documents: the file holds the
\* second
C19_Witness ==
    \E law \in Submitted :
        /\ result[law] = "zip"
        /\ Cardinality(Collapsed(res[law].entries)) = 2
        /\ files[Loc(law) \o << law \o Ext >>] = [fmt |-> "pretty", data |-> "d2"]

====
